---- MODULE Spec2Model ----
(***************************************************************************)
(* Consultation matching and lifecycle of the DC_BACKEND Django project.   *)
(*                                                                         *)
(* One ConsultationRequest row (categories.models.ConsultationRequest),    *)
(* the IncomingCall rows created for it (dashboard.models.IncomingCall),   *)
(* the roster of professionals and a wall clock; stats holds the           *)
(* completed_consultations of the ProfessionalStat rows, pay the Payment   *)
(* of the request with its earning and transaction rows, probe one call    *)
(* of the scoring function on its own.  Every HTTP handler is              *)
(* one atomic action (load, body, save).  In addition one request may be   *)
(* "in flight": BeginRequest loads the row into the handler's instance     *)
(* and FinishRequest runs the body and Model.save() on that (possibly      *)
(* stale) instance; the views take no lock and open no transaction, so     *)
(* other handlers can run in between.  One in-flight handler plus atomic   *)
(* handlers yields every interleaving of the load and the save of two      *)
(* handlers.                                                               *)
(*                                                                         *)
(* Money is kept in cents (DecimalField(decimal_places=2)), time in        *)
(* minutes, NULL timestamps are 0, the commission rate in whole percent.   *)
(* IncomingCall.consultation is a foreign key on calls.Consultation that   *)
(* match_professional fills with the ConsultationRequest id; the model     *)
(* takes the insert to succeed and the id to identify the request.         *)
(***************************************************************************)
EXTENDS Integers, Sequences, FiniteSets, TLC

VARIABLES db, calls, online, commission, now, inflight, lastResp, handled,
          stats, pay, probe

vars == <<db, calls, online, commission, now, inflight, lastResp, handled,
          stats, pay, probe>>

----------------------------------------------------------------------------
(* Bounds *)

MaxTicks == 1
MaxHandled == 3

(* Program constants *)

OfferWindow == 5
DefaultCommission == 20
MinDurationAllowed == 15
MaxDurationAllowed == 240

(* Model inputs *)

\* The clock is observed at the start and then once per tick, a tick being
\* long enough for an offer made before it to have expired.
TickStep == OfferWindow + 1

NoRow == [status |-> "none"]
NoProf == 0
NULL == 0
None == [op |-> "none"]
\* No Payment row yet; no ProfessionalEarning and no Transaction rows.
NoPayment == [status |-> "none", earnings |-> 0, transactions |-> 0]
\* No professional has been scored on its own.
NoProbe == [rating10 |-> 0, experience |-> 0, load |-> 0, response_time |-> 0,
            jitter |-> 0, score |-> -1]

\* Users: 1 and 2 have role professional (their ProfessionalProfile carries
\* the same number), 3 is the client who owns the request, 4 is another
\* user of role client or admin.
Profs == {1, 2}
Client == 3
Outsider == 4
Actors == Profs \cup {Client, Outsider}
\* Two more professionals who send no request and stay online throughout:
\* 5 is in the category but not verified, 6 is verified but not in it.
Bystanders == {5, 6}
Roster == Profs \cup Bystanders

\* ProfessionalProfile rows: rating in tenths, hourly_rate in cents.
ProfRating10 == [p \in Roster |-> IF p \in Profs THEN 45 ELSE 50]
ProfExperience == [p \in Roster |-> 5]
ProfHourlyRate == [p \in Roster |-> IF p = 1 THEN 150000 ELSE 10000]
\* Average response time in the professionals' ProfessionalStat rows.
ProfResponseTime == [p \in Roster |-> 30]
\* is_verified; service_categories contains the category; specialty equals
\* the category's name.
Verified == Profs \cup {6}
Members == Profs \cup {5}
SpecialtyMembers == Profs \cup {5}

BasePrice == 100000
CategoryMinDuration == 20
\* ServiceCategory.min_duration is an IntegerField without validators, set per
\* category in the admin: the values of the categories a quick consultation
\* may name.
CategoryMinDurations == {CategoryMinDuration, 10}
Durations == {30}
JitterSet == {0, 50, 99}
\* Inputs of the scoring function taken on its own: ratings in tenths, years
\* of experience, active consultations, average response times in seconds.
ProbeRatings == {0, 25, 45, 50}
ProbeYears == {0, 5, 10, 12}
ProbeLoads == 0..3
ProbeResponseTimes == {30, 100, 200, 400}
\* Values an administrator gives the category's commission_rate.
CommissionRates == {DefaultCommission, 25}

STATUS_CHOICES == {"pending", "matched", "accepted", "rejected", "scheduled",
                   "in_progress", "completed", "cancelled", "expired"}
Terminal == {"completed", "cancelled", "rejected", "expired"}
ActiveLoad == {"matched", "accepted", "in_progress"}
TimestampFields == {"matched_at", "accepted_at", "started_at", "completed_at", "cancelled_at"}

----------------------------------------------------------------------------
(* Pure helpers *)

\* Decimal quantize to the field's scale, ROUND_HALF_EVEN, of n/d (n >= 0).
RoundHalfEven(n, d) ==
    LET q == n \div d
        r == n % d
    IN  IF 2 * r < d THEN q
        ELSE IF 2 * r > d THEN q + 1
        ELSE IF q % 2 = 0 THEN q ELSE q + 1

Min(a, b) == IF a < b THEN a ELSE b
Max(a, b) == IF a > b THEN a ELSE b

\* Priced with the earnings left at the full amount (fee not deducted).
Priced_FeeNotDeducted(inst, comm) ==
    IF inst.duration_minutes # 0 /\ inst.hourly_rate # 0
    THEN [inst EXCEPT
            !.total_amount = RoundHalfEven(inst.hourly_rate * inst.duration_minutes, 60),
            !.platform_fee = RoundHalfEven(inst.hourly_rate * inst.duration_minutes * comm, 6000),
            !.professional_earnings =
                RoundHalfEven(inst.hourly_rate * inst.duration_minutes, 60)]
    ELSE inst

\* ConsultationRequest.save, pricing block (also calculate_price).
Priced(inst, comm) ==
    IF inst.duration_minutes # 0 /\ inst.hourly_rate # 0
    THEN [inst EXCEPT
            !.total_amount = RoundHalfEven(inst.hourly_rate * inst.duration_minutes, 60),
            !.platform_fee = RoundHalfEven(inst.hourly_rate * inst.duration_minutes * comm, 6000),
            !.professional_earnings =
                RoundHalfEven(inst.hourly_rate * inst.duration_minutes * (100 - comm), 6000)]
    ELSE inst

\* Stamped without the comparison of the stored status with the instance's.
Stamped_Always(inst, stored, t) ==
    IF stored.status # "none"
    THEN CASE inst.status = "matched" -> [inst EXCEPT !.matched_at = t]
           [] inst.status = "accepted" -> [inst EXCEPT !.accepted_at = t]
           [] inst.status = "in_progress" -> [inst EXCEPT !.started_at = t]
           [] inst.status = "completed" -> [inst EXCEPT !.completed_at = t]
           [] inst.status = "cancelled" -> [inst EXCEPT !.cancelled_at = t]
           [] OTHER -> inst
    ELSE inst

\* ConsultationRequest.save, timestamp block: runs only for an existing row
\* (self.pk) whose stored status differs from the instance's.
Stamped(inst, stored, t) ==
    IF stored.status # "none" /\ stored.status # inst.status
    THEN CASE inst.status = "matched" -> [inst EXCEPT !.matched_at = t]
           [] inst.status = "accepted" -> [inst EXCEPT !.accepted_at = t]
           [] inst.status = "in_progress" -> [inst EXCEPT !.started_at = t]
           [] inst.status = "completed" -> [inst EXCEPT !.completed_at = t]
           [] inst.status = "cancelled" -> [inst EXCEPT !.cancelled_at = t]
           [] OTHER -> inst
    ELSE inst

\* The row ConsultationRequest.save() writes for instance inst.
Save(inst, stored, t, comm) == Stamped(Priced(inst, comm), stored, t)

NewRow(rate, duration) ==
    [status |-> "pending", professional |-> NoProf,
     hourly_rate |-> rate, duration_minutes |-> duration,
     total_amount |-> 0, platform_fee |-> 0, professional_earnings |-> 0,
     matched_at |-> NULL, accepted_at |-> NULL, started_at |-> NULL,
     completed_at |-> NULL, cancelled_at |-> NULL, match_attempts |-> 0]

----------------------------------------------------------------------------
(* Matching *)

\* ProfessionalProfile.objects.filter(service_categories=category,
\* is_online=True, is_verified=True)
OnlineNow == online \cup Bystanders

\* The candidates without the is_verified filter.
Eligible_Unverified == {p \in Roster : p \in Members /\ p \in OnlineNow}

Eligible == {p \in Roster : p \in Members /\ p \in OnlineNow /\ p \in Verified}

\* ConsultationRequest.objects.filter(professional=p, status__in=[...]).count()
CurrentCalls(p) ==
    IF db.status \in ActiveLoad /\ db.professional = p THEN 1 ELSE 0

LoadPenalty(n) ==
    IF n >= 3 THEN -30 ELSE IF n = 2 THEN -15 ELSE IF n = 1 THEN -5 ELSE 0

\* The response bonus for a ProfessionalStat row whose average response time
\* is rt: ProfessionalStat has no attribute response_time (the field is
\* response_time_minutes), the lookup raises inside the bare try/except and
\* the bonus stays 0 whatever rt is.
ResponseBonusOf(rt) == 0

ResponseBonus(p) == ResponseBonusOf(ProfResponseTime[p])

\* SimpleAIMatcher._calculate_score on its inputs, in tenths of a point:
\* rating in tenths, years of experience, number of active consultations,
\* average response time and the random factor j (in tenths).
ScoreOf(rating10, years, load, rt, j) ==
    Max(0, rating10 * 8 + 10 * Min(years * 3, 30)
           + 10 * LoadPenalty(load) + 10 * ResponseBonusOf(rt) + j)

\* SimpleAIMatcher._calculate_score for professional p of the roster.
CalculateScore(p, j) ==
    ScoreOf(ProfRating10[p], ProfExperience[p], CurrentCalls(p),
            ProfResponseTime[p], j)

\* The order in which the queryset yields the professionals (primary key).
RosterOrder == <<1, 2, 5, 6>>

\* for prof in professionals: scored.append((prof, score))
Scored(jit) ==
    LET cands == SelectSeq(RosterOrder, LAMBDA p : p \in Eligible)
    IN  [i \in 1..Len(cands) |-> <<cands[i], CalculateScore(cands[i], jit[cands[i]])>>]

\* Insertion that puts x before the entries of equal score.
InsertDesc_BeforeEquals(x, sorted) ==
    LET k == Cardinality({i \in 1..Len(sorted) : sorted[i][2] > x[2]})
    IN  SubSeq(sorted, 1, k) \o <<x>> \o SubSeq(sorted, k + 1, Len(sorted))

\* One step of list.sort(key=score, reverse=True): x, which came after the
\* entries already sorted, goes behind every entry whose score is at least
\* its own (the sort is stable, also with reverse=True).
InsertDesc(x, sorted) ==
    LET k == Cardinality({i \in 1..Len(sorted) : sorted[i][2] >= x[2]})
    IN  SubSeq(sorted, 1, k) \o <<x>> \o SubSeq(sorted, k + 1, Len(sorted))

RECURSIVE SortDesc(_)
\* scored.sort(key=lambda x: x[1], reverse=True)
SortDesc(scored) ==
    IF scored = <<>> THEN <<>>
    ELSE InsertDesc(scored[Len(scored)], SortDesc(SubSeq(scored, 1, Len(scored) - 1)))

\* SimpleAIMatcher.find_best_professional for a non-empty candidate set:
\* scored[0][0] after the sort.
FindBestProfessional(jit) == SortDesc(Scored(jit))[1][1]

NewCall(p, t) ==
    [professional |-> p, status |-> "pending", expires_at |-> t + OfferWindow,
     responded_at |-> NULL, accepted_at |-> NULL, rejected_at |-> NULL]

\* What the last handler reported: result is "ok", "refused" (4xx),
\* "nomatch", "expired" or "error" (exception after the writes); was is the
\* stored status the handler found, winner the professional it selected.
Resp(op, result, was, winner) ==
    [op |-> op, result |-> result, was |-> was, winner |-> winner]

\* Matched with the request's hourly_rate left as it was.
Matched_RateKept(inst, w) ==
    [inst EXCEPT !.professional = w, !.status = "matched", !.matched_at = now]

\* The instance as the views hand it to save().
Matched(inst, w) ==
    [inst EXCEPT !.professional = w, !.status = "matched", !.matched_at = now,
                 !.hourly_rate = ProfHourlyRate[w]]
Accepted(inst) == [inst EXCEPT !.status = "accepted", !.accepted_at = now]
Cancelled(inst) == [inst EXCEPT !.status = "cancelled", !.cancelled_at = now]
Completed(inst) == [inst EXCEPT !.status = "completed", !.completed_at = now]
Paid(inst) == [inst EXCEPT !.status = "accepted"]

\* The instance handler op hands to save(), w being the winner of a match.
Body(op, inst, w) ==
    CASE op = "match" -> Matched(inst, w)
      [] op = "accept" -> Accepted(inst)
      [] op = "cancel" -> Cancelled(inst)
      [] op = "complete" -> Completed(inst)
      [] op = "payment" -> Paid(inst)

\* ConsultationRequestViewSet.match_professional on instance inst while the
\* stored row is stored.  After the save and the IncomingCall insert the
\* import of dashboard.models.Notification fails (no such class), so the
\* handler ends with an exception; nothing is rolled back.
MatchProfessional(op, inst, stored) ==
    /\ stats' = stats
    /\ IF Eligible = {}
       THEN /\ db' = stored
            /\ calls' = calls
            /\ lastResp' = Resp(op, "nomatch", stored.status, NoProf)
       ELSE \E jit \in [Eligible -> JitterSet] :
               LET w == FindBestProfessional(jit)
               IN  /\ db' = Save(Matched(inst, w), stored, now, commission)
                   /\ calls' = Append(calls, NewCall(w, now))
                   /\ lastResp' = Resp(op, "error", stored.status, w)

\* get_object() over all rows, without the filter of get_queryset.
Visible_All(actor, row) == TRUE

\* ConsultationRequestViewSet.get_queryset / get_object
Visible(actor, row) ==
    IF actor \in Profs THEN row.professional = actor ELSE actor = Client

Refuse(op) ==
    /\ lastResp' = Resp(op, "refused", db.status, NoProf)
    /\ UNCHANGED <<db, calls, stats>>

----------------------------------------------------------------------------
(* Request handlers of ConsultationRequestViewSet, run on a loaded instance *)

\* Admitted with match not looking at the professional of the request.
Admitted_MatchUnchecked(op, actor, inst) ==
    CASE op = "match" -> Visible(actor, inst)
      [] op = "accept" -> Visible(actor, inst) /\ actor \in Profs /\ inst.professional = actor
      [] op = "cancel" -> Visible(actor, inst)
      [] op = "complete" -> Visible(actor, inst) /\ actor \in Profs /\ inst.professional = actor
      [] op = "payment" -> inst.professional # NoProf

\* The handler gets past get_object() and its permission checks.
Admitted(op, actor, inst) ==
    CASE op = "match" -> Visible(actor, inst) /\ inst.professional = NoProf
      [] op = "accept" -> Visible(actor, inst) /\ actor \in Profs /\ inst.professional = actor
      [] op = "cancel" -> Visible(actor, inst)
      [] op = "complete" -> Visible(actor, inst) /\ actor \in Profs /\ inst.professional = actor
      [] op = "payment" -> inst.professional # NoProf

\* match
RunMatch(actor, inst) ==
    IF ~Admitted("match", actor, inst)
    THEN Refuse("match")
    ELSE MatchProfessional("match", inst, db)

\* accept: the Notification import after the save raises.
RunAccept(actor, inst) ==
    IF ~Admitted("accept", actor, inst)
    THEN Refuse("accept")
    ELSE /\ db' = Save(Accepted(inst), db, now, commission)
         /\ lastResp' = Resp("accept", "error", db.status, NoProf)
         /\ UNCHANGED <<calls, stats>>

\* cancel
RunCancel(actor, inst) ==
    IF ~Admitted("cancel", actor, inst)
    THEN Refuse("cancel")
    ELSE /\ db' = Save(Cancelled(inst), db, now, commission)
         /\ lastResp' = Resp("cancel", "ok", db.status, NoProf)
         /\ UNCHANGED <<calls, stats>>

\* ProfessionalStat.objects.get_or_create(professional=p): a missing row is
\* created with the field defaults.
GetOrCreateStat(st, p) == IF p \in DOMAIN st THEN st ELSE st @@ (p :> 0)

\* update_stats as a method that counts the completion.
UpdateStats_Counted(st, p) == [st EXCEPT ![p] = @ + 1]

\* stats.update_stats(consultation): ProfessionalStat defines no such method,
\* the call raises AttributeError and writes nothing.
UpdateStats(st, p) == st

\* complete: the row is saved, the professional's ProfessionalStat row is
\* fetched or created, then update_stats raises.
RunComplete(actor, inst) ==
    IF ~Admitted("complete", actor, inst)
    THEN Refuse("complete")
    ELSE /\ db' = Save(Completed(inst), db, now, commission)
         /\ stats' = UpdateStats(GetOrCreateStat(stats, actor), actor)
         /\ lastResp' = Resp("complete", "error", db.status, NoProf)
         /\ UNCHANGED calls

\* Payment success (MpesaCallbackView.post, test callback branch): the
\* consultation of the transaction becomes accepted. A transaction exists only
\* for a request that had a professional when the payment was initiated
\* (MpesaPaymentInitiateSerializer.validate).
RunPayment(actor, inst) ==
    IF ~Admitted("payment", actor, inst)
    THEN Refuse("payment")
    ELSE
    /\ db' = Save(Paid(inst), db, now, commission)
    /\ lastResp' = Resp("payment", "ok", db.status, NoProf)
    /\ UNCHANGED <<calls, stats>>

Ops == {"match", "accept", "cancel", "complete", "payment"}

\* Who can send the request; the payment callback comes from the gateway on
\* behalf of the paying client.
Callers(op) == IF op = "payment" THEN {Client} ELSE Actors

Run(op, actor, inst) ==
    CASE op = "match" -> RunMatch(actor, inst)
      [] op = "accept" -> RunAccept(actor, inst)
      [] op = "cancel" -> RunCancel(actor, inst)
      [] op = "complete" -> RunComplete(actor, inst)
      [] op = "payment" -> RunPayment(actor, inst)

----------------------------------------------------------------------------
(* Actions *)

Init ==
    /\ db = NoRow
    /\ calls = <<>>
    /\ online \in SUBSET Profs
    /\ commission = DefaultCommission
    /\ now = 1
    /\ inflight = None
    /\ lastResp = Resp("init", "ok", "none", NoProf)
    /\ handled = 0
    /\ stats = <<>>
    /\ pay = NoPayment
    /\ probe = NoProbe

\* CreateConsultationView.post / ConsultationRequestViewSet.perform_create:
\* serializer create (hourly_rate defaults to the category's base price)
\* followed at once by match_professional.
CreateConsultation(duration) ==
    /\ db.status = "none"
    /\ duration >= MinDurationAllowed /\ duration <= MaxDurationAllowed
    /\ LET row == Save(NewRow(BasePrice, duration), NoRow, now, commission)
       IN  MatchProfessional("create", row, row)
    /\ UNCHANGED <<online, commission, now, inflight, handled, pay, probe>>

\* QuickConsultationView.post
QuickConsultation(min_duration) ==
    /\ db.status = "none"
    /\ LET row == Save(NewRow(0, min_duration), NoRow, now, commission)
       IN  MatchProfessional("quick", row, row)
    /\ UNCHANGED <<online, commission, now, inflight, handled, pay, probe>>

\* A handler that loads, runs and saves without another handler in between.
Request(op, actor) ==
    /\ db.status # "none"
    /\ handled < MaxHandled
    /\ handled' = handled + 1
    /\ Run(op, actor, db)
    /\ UNCHANGED <<online, commission, now, inflight, pay, probe>>

\* get_object() and the permission checks of a handler that is overtaken by
\* other handlers before it saves (a refusal ends the handler at once and is
\* covered by Request).
BeginRequest(op, actor) ==
    /\ db.status # "none"
    /\ inflight.op = "none"
    /\ Admitted(op, actor, db)
    /\ handled < MaxHandled
    /\ handled' = handled + 1
    /\ inflight' = [op |-> op, actor |-> actor, inst |-> db]
    /\ UNCHANGED <<db, calls, online, commission, now, lastResp, stats, pay, probe>>

\* Body and save() of the overtaken handler, on the instance it loaded.
FinishRequest ==
    /\ inflight.op # "none"
    /\ Run(inflight.op, inflight.actor, inflight.inst)
    /\ inflight' = None
    /\ UNCHANGED <<online, commission, now, handled, pay, probe>>

----------------------------------------------------------------------------
(* Django admin actions of ConsultationRequestAdmin and the staff API *)

\* mark_as_completed: queryset.update(), which bypasses save().
AdminMarkCompleted ==
    /\ db.status # "none"
    /\ handled < MaxHandled
    /\ handled' = handled + 1
    /\ db' = [db EXCEPT !.status = "completed", !.completed_at = now]
    /\ lastResp' = Resp("mark_as_completed", "ok", db.status, NoProf)
    /\ UNCHANGED <<calls, online, commission, now, inflight, stats, pay, probe>>

\* mark_as_cancelled: queryset.update(), which bypasses save().
AdminMarkCancelled ==
    /\ db.status # "none"
    /\ handled < MaxHandled
    /\ handled' = handled + 1
    /\ db' = [db EXCEPT !.status = "cancelled", !.cancelled_at = now]
    /\ lastResp' = Resp("mark_as_cancelled", "ok", db.status, NoProf)
    /\ UNCHANGED <<calls, online, commission, now, inflight, stats, pay, probe>>

\* specialty=category.name, is_online, is_verified, order_by('-rating')
AvailablePros ==
    {p \in Roster : p \in SpecialtyMembers /\ p \in OnlineNow /\ p \in Verified}

FirstByRating(S) ==
    CHOOSE p \in S : \A q \in S :
        \/ ProfRating10[p] > ProfRating10[q]
        \/ ProfRating10[p] = ProfRating10[q] /\ p <= q

\* assign_professional: rows without a professional get the best rated
\* available one; no IncomingCall is created and hourly_rate is kept.
AdminAssignProfessional ==
    /\ db.status # "none"
    /\ handled < MaxHandled
    /\ handled' = handled + 1
    /\ IF db.professional = NoProf /\ AvailablePros # {}
       THEN LET w == FirstByRating(AvailablePros)
            IN  /\ db' = Save([db EXCEPT !.professional = w, !.status = "matched",
                                         !.matched_at = now],
                              db, now, commission)
                /\ lastResp' = Resp("assign_professional", "ok", db.status, w)
       ELSE /\ db' = db
            /\ lastResp' = Resp("assign_professional", "nomatch", db.status, NoProf)
    /\ UNCHANGED <<calls, online, commission, now, inflight, stats, pay, probe>>

\* admin_dashboard ConsultationViewSet.cancel
AdminCancel ==
    /\ db.status # "none"
    /\ handled < MaxHandled
    /\ handled' = handled + 1
    /\ IF db.status \in {"completed", "cancelled"}
       THEN /\ db' = db
            /\ lastResp' = Resp("admin_cancel", "refused", db.status, NoProf)
       ELSE /\ db' = Save([db EXCEPT !.status = "cancelled"], db, now, commission)
            /\ lastResp' = Resp("admin_cancel", "ok", db.status, NoProf)
    /\ UNCHANGED <<calls, online, commission, now, inflight, stats, pay, probe>>

\* ServiceCategoryAdmin change form: commission_rate is an editable field.
SetCommission(c) ==
    /\ c # commission
    /\ handled < MaxHandled
    /\ handled' = handled + 1
    /\ commission' = c
    /\ lastResp' = Resp("set_commission", "ok", db.status, NoProf)
    /\ UNCHANGED <<db, calls, online, now, inflight, stats, pay, probe>>

----------------------------------------------------------------------------
(* PaymentViewSet, called by the client who pays *)

\* What Stripe answers: whether the intent could be created, and the status
\* of the intent that is retrieved ("no_such_intent": the retrieval raises
\* StripeError, which validate turns into a validation error as well).
StripeCreates == {"created", "stripe_error"}
IntentStatuses == {"succeeded", "processing", "requires_payment_method",
                   "no_such_intent"}

\* create_payment_intent: the metadata of the intent needs the consultation's
\* professional (AttributeError without one, answered with 400); the Payment
\* row is created pending once Stripe has created the intent.
CreatePaymentIntent(outcome) ==
    /\ db.status # "none"
    /\ pay.status = "none"
    /\ handled < MaxHandled
    /\ handled' = handled + 1
    /\ IF db.professional = NoProf \/ outcome # "created"
       THEN /\ pay' = pay
            /\ lastResp' = Resp("create_payment_intent", "refused", db.status, NoProf)
       ELSE /\ pay' = [pay EXCEPT !.status = "pending"]
            /\ lastResp' = Resp("create_payment_intent", "ok", db.status, NoProf)
    /\ UNCHANGED <<db, calls, online, commission, now, inflight, stats, probe>>

\* The serializer passing every intent, whatever its status.
IntentAccepted_Any(intent) == TRUE

\* ConfirmPaymentSerializer.validate: the retrieved intent must have
\* succeeded.
IntentAccepted(intent) == intent = "succeeded"

\* confirm_payment.  With a valid serializer the view marks the payment
\* completed and the consultation accepted inside transaction.atomic(), then
\* computes processing_fee = payment.amount * 0.029, a Decimal times a
\* float: TypeError, and the block is rolled back.
ConfirmPayment(intent) ==
    /\ handled < MaxHandled
    /\ handled' = handled + 1
    /\ IF pay.status = "none" \/ ~IntentAccepted(intent)
       THEN lastResp' = Resp("confirm_payment", "refused", db.status, NoProf)
       ELSE lastResp' = Resp("confirm_payment", "error", db.status, NoProf)
    /\ UNCHANGED <<db, calls, online, commission, now, inflight, stats, pay, probe>>

\* PaymentWebhookView.post with a payment_intent.succeeded event
\* (handle_payment_succeeded): a Payment of that intent which is not yet
\* completed becomes completed and its consultation accepted, through save().
PaymentWebhook ==
    /\ handled < MaxHandled
    /\ handled' = handled + 1
    /\ IF pay.status \in {"none", "completed"}
       THEN /\ pay' = pay
            /\ db' = db
            /\ lastResp' = Resp("payment_webhook", "refused", db.status, NoProf)
       ELSE /\ pay' = [pay EXCEPT !.status = "completed"]
            /\ db' = Save(Paid(db), db, now, commission)
            /\ lastResp' = Resp("payment_webhook", "ok", db.status, NoProf)
    /\ UNCHANGED <<calls, online, commission, now, inflight, stats, probe>>

----------------------------------------------------------------------------
(* IncomingCallViewSet, called by the professional the call belongs to *)

\* accept
CallAccept(i) ==
    /\ i \in 1..Len(calls)
    /\ handled < MaxHandled
    /\ handled' = handled + 1
    /\ IF calls[i].status \notin {"pending", "ringing"}
       THEN /\ calls' = calls
            /\ lastResp' = Resp("call_accept", "refused", db.status, NoProf)
       ELSE IF now > calls[i].expires_at
       THEN /\ calls' = [calls EXCEPT ![i].status = "expired"]
            /\ lastResp' = Resp("call_accept", "expired", db.status, NoProf)
       ELSE /\ calls' = [calls EXCEPT ![i].status = "accepted",
                                      ![i].accepted_at = now,
                                      ![i].responded_at = now]
            /\ lastResp' = Resp("call_accept", "ok", db.status, NoProf)
    /\ UNCHANGED <<db, online, commission, now, inflight, stats, pay, probe>>

\* reject
CallReject(i) ==
    /\ i \in 1..Len(calls)
    /\ handled < MaxHandled
    /\ handled' = handled + 1
    /\ IF calls[i].status \notin {"pending", "ringing"}
       THEN /\ calls' = calls
            /\ lastResp' = Resp("call_reject", "refused", db.status, NoProf)
       ELSE /\ calls' = [calls EXCEPT ![i].status = "rejected",
                                      ![i].rejected_at = now,
                                      ![i].responded_at = now]
            /\ lastResp' = Resp("call_reject", "ok", db.status, NoProf)
    /\ UNCHANGED <<db, online, commission, now, inflight, stats, pay, probe>>

\* The statuses a client of update_status sends (both are in
\* IncomingCall.STATUS_CHOICES).
UpdateStatuses == {"ringing", "expired"}

\* update_status: any status of STATUS_CHOICES is written as it comes;
\* ringing restarts the expiry at 60 seconds from now.
CallUpdateStatus(i, new_status) ==
    /\ i \in 1..Len(calls)
    /\ handled < MaxHandled
    /\ handled' = handled + 1
    /\ calls' = [calls EXCEPT ![i].status = new_status,
                              ![i].expires_at = IF new_status = "ringing"
                                                THEN now + 1 ELSE @]
    /\ lastResp' = Resp("call_update_status", "ok", db.status, NoProf)
    /\ UNCHANGED <<db, online, commission, now, inflight, stats, pay, probe>>

----------------------------------------------------------------------------
(* Environment *)

\* The professional toggles availability.
SetOnline(p) ==
    /\ online' = IF p \in online THEN online \ {p} ELSE online \cup {p}
    /\ UNCHANGED <<db, calls, commission, now, inflight, lastResp, handled,
                   stats, pay, probe>>

Tick ==
    /\ now < 1 + MaxTicks * TickStep
    /\ now' = now + TickStep
    /\ UNCHANGED <<db, calls, online, commission, inflight, lastResp, handled,
                   stats, pay, probe>>

Next ==
    \/ \E d \in Durations : CreateConsultation(d)
    \/ \E m \in CategoryMinDurations : QuickConsultation(m)
    \/ \E op \in Ops : \E a \in Callers(op) : Request(op, a)
    \/ \E op \in Ops : \E a \in Callers(op) : BeginRequest(op, a)
    \/ FinishRequest
    \/ AdminMarkCompleted
    \/ AdminMarkCancelled
    \/ AdminAssignProfessional
    \/ AdminCancel
    \/ \E c \in CommissionRates : SetCommission(c)
    \/ \E o \in StripeCreates : CreatePaymentIntent(o)
    \/ \E intent \in IntentStatuses : ConfirmPayment(intent)
    \/ PaymentWebhook
    \/ \E i \in 1..2 : CallAccept(i)
    \/ \E i \in 1..2 : CallReject(i)
    \/ \E i \in 1..2 : \E st \in UpdateStatuses : CallUpdateStatus(i, st)
    \/ \E p \in Profs : SetOnline(p)
    \/ Tick

Spec == Init /\ [][Next]_vars

\* Time passes; no code of the repository runs on a timer, so this is the
\* only fairness a behaviour can count on.
LiveSpec == Spec /\ WF_vars(Tick)

----------------------------------------------------------------------------
(* The scoring function on its own *)

ScoreInit ==
    /\ db = NoRow
    /\ calls = <<>>
    /\ online = {}
    /\ commission = DefaultCommission
    /\ now = 1
    /\ inflight = None
    /\ lastResp = Resp("init", "ok", "none", NoProf)
    /\ handled = 0
    /\ stats = <<>>
    /\ pay = NoPayment
    /\ probe \in [rating10 : ProbeRatings, experience : ProbeYears,
                   load : ProbeLoads, response_time : ProbeResponseTimes,
                   jitter : JitterSet, score : {-1}]

\* One call of _calculate_score on the inputs drawn.
CalculateProbe ==
    /\ probe.score = -1
    /\ probe' = [probe EXCEPT !.score = ScoreOf(probe.rating10, probe.experience,
                                                probe.load, probe.response_time,
                                                probe.jitter)]
    /\ UNCHANGED <<db, calls, online, commission, now, inflight, lastResp, handled,
                   stats, pay>>

ScoreNext == CalculateProbe

ScoreSpec == ScoreInit /\ [][ScoreNext]_vars

----------------------------------------------------------------------------
(* The selection of the best professional on its own *)

PickInit ==
    /\ db = NoRow
    /\ calls = <<>>
    /\ online \in SUBSET Profs
    /\ commission = DefaultCommission
    /\ now = 1
    /\ inflight = None
    /\ lastResp = Resp("init", "ok", "none", NoProf)
    /\ handled = 0
    /\ stats = <<>>
    /\ pay = NoPayment
    /\ probe \in [jit : [Roster -> JitterSet], best : {NoProf}]

\* One call of find_best_professional with the random factors drawn.
PickBest ==
    /\ probe.best = NoProf
    /\ Eligible # {}
    /\ probe' = [probe EXCEPT !.best = FindBestProfessional(probe.jit)]
    /\ UNCHANGED <<db, calls, online, commission, now, inflight, lastResp, handled,
                   stats, pay>>

PickNext == PickBest

PickSpec == PickInit /\ [][PickNext]_vars

----------------------------------------------------------------------------
(* Properties *)

\* The step ran a handler from load to save / finished an overtaken handler.
RequestStep == handled' # handled /\ inflight' = inflight
FinishStep == inflight.op # "none" /\ inflight'.op = "none"
\* The instance that handler had loaded.
StepInstance == IF FinishStep THEN inflight.inst ELSE db

\* The last handler wrote the row through ConsultationRequest.save().
JustSaved ==
    \/ lastResp.op \in {"create", "quick"}
    \/ lastResp.op \in {"match", "accept", "complete"} /\ lastResp.result = "error"
    \/ lastResp.op \in {"cancel", "payment", "payment_webhook",
                       "assign_professional", "admin_cancel"}
       /\ lastResp.result = "ok"

Abs(x) == IF x < 0 THEN -x ELSE x

\* C1: two match attempts on the same pending request, however they
\* interleave, leave exactly one CallOffer, made for the professional the
\* request is assigned to.
C1_OneOfferPerMatchedRequest ==
    /\ Len(calls) <= 1
    /\ Len(calls) = 1 => db.professional = calls[1].professional

\* C2 (as stated): after every save with hourly_rate > 0 and
\* duration_minutes > 0, total_amount = hourly_rate * duration_minutes / 60,
\* platform_fee = total_amount * commission_rate / 100 and
\* platform_fee + professional_earnings = total_amount, exactly.
C2_PricingExact ==
    (JustSaved /\ db.hourly_rate > 0 /\ db.duration_minutes > 0) =>
        /\ 60 * db.total_amount = db.hourly_rate * db.duration_minutes
        /\ 100 * db.platform_fee = db.total_amount * commission
        /\ db.platform_fee + db.professional_earnings = db.total_amount

\* C2 (amended): after every save with hourly_rate > 0 and
\* duration_minutes > 0 the three equalities hold to within 0.01, the
\* precision of the two-decimal columns the amounts are stored in.
C2_PricingWithinRounding ==
    (JustSaved /\ db.hourly_rate > 0 /\ db.duration_minutes > 0) =>
        /\ Abs(60 * db.total_amount - db.hourly_rate * db.duration_minutes) <= 60
        /\ Abs(100 * db.platform_fee - db.total_amount * commission) <= 100
        /\ Abs(db.platform_fee + db.professional_earnings - db.total_amount) <= 1

\* A saved row whose amounts were rounded: 100.00 an hour for 20 minutes.
C2_Witness ==
    /\ JustSaved
    /\ db.hourly_rate = 10000 /\ db.duration_minutes = 20
    /\ db.total_amount = 3333
    /\ db.platform_fee + db.professional_earnings # db.total_amount

\* C3: a transition timestamp that is set is never changed by a later
\* operation.
C3_TimestampsWrittenOnce ==
    [][db.status # "none" =>
        \A f \in TimestampFields : db[f] # NULL => db'[f] = db[f]]_vars

C5_NoMatchCountsAttempt ==
    [][((RequestStep \/ FinishStep) /\ lastResp'.op = "match"
            /\ lastResp'.result = "nomatch" /\ db.status = "pending") =>
        /\ db'.status = "pending"
        /\ db'.professional = NoProf
        /\ calls' = calls
        /\ db'.match_attempts = db.match_attempts + 1]_vars

\* C6: a pending CallOffer past its expires_at eventually becomes expired
\* together with its ConsultationRequest.
OfferIs(i, st) == Len(calls) >= i /\ calls[i].status = st

C6_ExpiredOffersAreSwept ==
    \A i \in 1..2 :
        (OfferIs(i, "pending") /\ now > calls[i].expires_at)
            ~> (OfferIs(i, "expired") /\ db.status = "expired")

C8_AcceptedOfferAcceptsRequest ==
    /\ (lastResp.op = "call_accept" /\ lastResp.result = "ok") =>
            (db.status = "accepted" /\ db.accepted_at # NULL)
    /\ \A i \in 1..Len(calls) :
            calls[i].status = "accepted" => db.status # "matched"

\* C9: accept changes the status only from matched; an accept found in any
\* other status is refused and leaves the status as it was.
C9_AcceptOnlyFromMatched ==
    (lastResp.op = "accept" /\ lastResp.was # "matched") =>
        (lastResp.result = "refused" /\ db.status = lastResp.was)

\* C10: a request whose status is completed, cancelled, rejected or expired
\* keeps that status whatever operation follows.
C10_TerminalStatusIsFinal ==
    [][db.status \in Terminal => db'.status = db.status]_vars

OwnTimestamp(op) ==
    CASE op = "match" -> "matched_at"
      [] op = "accept" -> "accepted_at"
      [] op = "cancel" -> "cancelled_at"
      [] op = "complete" -> "completed_at"
      [] op = "payment" -> "accepted_at"

\* C12: two lifecycle operations that overlap on one request leave the row
\* they would leave run one after the other, in which every operation changes
\* only its own transition timestamp: the operation that saves last keeps the
\* timestamps the other one has written, no write is lost.
C12_OverlapEqualsSerialOrder ==
    [][((RequestStep \/ FinishStep) /\ lastResp'.op \in Ops) =>
        \A f \in TimestampFields \ {OwnTimestamp(lastResp'.op)} :
            db'[f] = db[f]]_vars

\* C13: accept, cancel and complete sent by a user who is neither the owning
\* client nor the assigned professional nor staff are refused and leave the
\* request, its status, professional and timestamps, as it was (user 4 taken
\* as a client without staff rights).
C13_StrangersAreRefused ==
    [][\A op \in {"accept", "cancel", "complete"} : \A a \in Actors \ {Client} :
        (Request(op, a) /\ a # db.professional) =>
            (lastResp'.result = "refused" /\ db' = db)]_vars

\* A cancel of a matched request was refused; the owner and the assigned
\* professional are never refused a cancel, so a stranger sent it.
C13_Witness ==
    /\ lastResp.op = "cancel" /\ lastResp.result = "refused"
    /\ lastResp.was = "matched" /\ db.status = "matched"
    /\ db.professional # NoProf /\ db.cancelled_at = NULL

\* C14: an accept or a reject of a CallOffer that arrives after expires_at is
\* refused as expired and records no response: the offer does not become
\* accepted or rejected and accepted_at, rejected_at and responded_at stay
\* unset.
C14_LateResponseIsRefused ==
    [][\A i \in 1..Len(calls) :
        ((CallAccept(i) \/ CallReject(i)) /\ now > calls[i].expires_at) =>
            /\ lastResp'.result \in {"expired", "refused"}
            /\ calls'[i].status \notin {"accepted", "rejected"} \ {calls[i].status}
            /\ calls'[i].accepted_at = calls[i].accepted_at
            /\ calls'[i].rejected_at = calls[i].rejected_at
            /\ calls'[i].responded_at = calls[i].responded_at]_vars

\* C15: once a consultation is priced, a change of the category's
\* commission_rate does not reach it: accept, cancel, complete and payment
\* confirmation, which leave hourly rate and duration alone, leave
\* platform_fee and professional_earnings as they were.
C15_CommissionChangeIsNotRetroactive ==
    [][((RequestStep \/ FinishStep)
            /\ lastResp'.op \in {"accept", "cancel", "complete", "payment"}
            /\ db'.hourly_rate = db.hourly_rate
            /\ db'.duration_minutes = db.duration_minutes) =>
        /\ db'.platform_fee = db.platform_fee
        /\ db'.professional_earnings = db.professional_earnings]_vars

\* The response bonus by tier: 20 below 60 s, 15 below 180 s, 10 below 300 s,
\* else 0.
TierBonus(rt) ==
    IF rt < 60 THEN 20 ELSE IF rt < 180 THEN 15 ELSE IF rt < 300 THEN 10 ELSE 0

\* C16: the score includes the response bonus of the tier the average
\* response time falls in; a professional with rating 5.0, 10 or more years,
\* no active consultation and a response time under 60 s scores
\* 40 + 30 + 0 + 20 = 90 before the random factor and in [90, 100) with it
\* (scores in tenths of a point).
C16_ScoreWithResponseBonus ==
    probe.score # -1 =>
        /\ probe.score =
              Max(0, probe.rating10 * 8 + 10 * Min(probe.experience * 3, 30)
                     + 10 * LoadPenalty(probe.load)
                     + 10 * TierBonus(probe.response_time) + probe.jitter)
        /\ (probe.rating10 = 50 /\ probe.experience >= 10 /\ probe.load = 0
                /\ probe.response_time < 60) =>
              /\ probe.score - probe.jitter = 900
              /\ probe.score >= 900 /\ probe.score < 1000

\* C17: a match or an accept whose notification cannot be sent still makes
\* its transition and reports success: after a match that found a winner the
\* request is matched to the winner with a CallOffer for the winner in place,
\* after an admitted accept the request is accepted, and in both cases the
\* caller is told the operation succeeded.
C17_NotificationFailureIsAbsorbed ==
    /\ (lastResp.op = "match" /\ lastResp.winner # NoProf) =>
            /\ db.status = "matched" /\ db.professional = lastResp.winner
            /\ \E i \in 1..Len(calls) : calls[i].professional = lastResp.winner
            /\ lastResp.result = "ok"
    /\ (lastResp.op = "accept" /\ lastResp.result # "refused") =>
            /\ db.status = "accepted"
            /\ lastResp.result = "ok"

\* C18: confirm_payment for a payment whose gateway intent has not succeeded
\* is rejected and changes nothing: the Payment, the consultation and the
\* ProfessionalEarning and Transaction rows stay as they were.
C18_UnpaidConfirmationIsRejected ==
    [][\A intent \in IntentStatuses \ {"succeeded"} :
        ConfirmPayment(intent) =>
            /\ lastResp'.result = "refused"
            /\ pay' = pay
            /\ db' = db]_vars

\* The confirmation of an existing pending payment was rejected.
C18_Witness ==
    /\ lastResp.op = "confirm_payment" /\ lastResp.result = "refused"
    /\ pay.status = "pending" /\ pay.earnings = 0 /\ pay.transactions = 0
    /\ db.status = "matched"

\* C19: a match on a request whose professional is already set is a no-op in
\* every status: the endpoint refuses it, the bulk assignment skips the row,
\* and the request (professional, status, hourly rate, pricing) and the
\* CallOffers stay as they were.  (A match that loaded the request before
\* its professional was set is the overlap of C1.)
C19_MatchOnAssignedRequestIsNoOp ==
    [][/\ \A a \in Actors :
            (Request("match", a) /\ db.professional # NoProf) =>
                (lastResp'.result = "refused" /\ db' = db /\ calls' = calls)
       /\ (AdminAssignProfessional /\ db.professional # NoProf) =>
                (lastResp'.winner = NoProf /\ db' = db /\ calls' = calls)]_vars

\* The client's match on a request already accepted by its professional was
\* refused while another professional was online.
C19_Witness ==
    /\ lastResp.op = "match" /\ lastResp.result = "refused"
    /\ lastResp.was = "accepted" /\ db.status = "accepted"
    /\ db.professional # NoProf
    /\ online \ {db.professional} # {}
    /\ Len(calls) = 1

\* C20: when the assigned professional rejects the CallOffer of a matched
\* request the request becomes rejected; no rejected CallOffer of the
\* assigned professional exists while the request is still matched.
C20_RejectedOfferRejectsRequest ==
    /\ (lastResp.op = "call_reject" /\ lastResp.result = "ok"
            /\ lastResp.was = "matched") => db.status = "rejected"
    /\ \A i \in 1..Len(calls) :
            (calls[i].status = "rejected" /\ calls[i].professional = db.professional)
                => db.status # "matched"

\* C21: a cancel by the owning client succeeds only from pending, matched,
\* accepted or scheduled and one by the assigned professional only from
\* matched, accepted or scheduled; from any other status the cancel of either
\* is refused and leaves status and cancelled_at as they were.
C21_CancelOnlyFromOpenStatus ==
    [][\A a \in Profs \cup {Client} :
        (/\ Request("cancel", a)
         /\ a \in Profs => db.professional = a
         /\ db.status \notin (IF a = Client
                                THEN {"pending", "matched", "accepted", "scheduled"}
                                ELSE {"matched", "accepted", "scheduled"})) =>
            /\ lastResp'.result = "refused"
            /\ db'.status = db.status
            /\ db'.cancelled_at = db.cancelled_at]_vars

\* C22: complete moves the request to completed only for the assigned
\* professional and only from in_progress, accepted or scheduled; from any
\* other status it is refused and leaves status and completed_at as they were.
C22_CompleteOnlyFromActiveStatus ==
    [][\A a \in Profs :
        (/\ Request("complete", a)
         /\ db.professional = a
         /\ db.status \notin {"in_progress", "accepted", "scheduled"}) =>
            /\ lastResp'.result = "refused"
            /\ db'.status = db.status
            /\ db'.completed_at = db.completed_at]_vars

\* C23: while the request is cancelled, rejected or expired none of its
\* CallOffers is still pending or ringing.
C23_TerminalRequestHasNoOpenOffer ==
    db.status \in {"cancelled", "rejected", "expired"} =>
        \A i \in 1..Len(calls) : calls[i].status \notin {"pending", "ringing"}

\* The step selected a professional for the request.
SelectionStep ==
    /\ RequestStep \/ FinishStep \/ db.status = "none"
    /\ lastResp'.op \in {"match", "create", "quick", "assign_professional"}
    /\ lastResp'.winner # NoProf

\* C24: whichever path assigns a professional, the matcher or the admin
\* action, the professional is online and verified when selected and belongs
\* to the category (by service_categories or by specialty name).
C24_AssignedWasEligible ==
    [][SelectionStep =>
        /\ db'.professional = lastResp'.winner
        /\ lastResp'.winner \in OnlineNow
        /\ lastResp'.winner \in Verified
        /\ lastResp'.winner \in Members \cup SpecialtyMembers]_vars

\* The admin action assigned a professional while an unverified member with a
\* better rating was online.
C24_Witness ==
    /\ lastResp.op = "assign_professional" /\ lastResp.winner \in Profs
    /\ db.professional = lastResp.winner /\ db.status = "matched"
    /\ lastResp.winner \in online
    /\ \E q \in OnlineNow \ Verified : ProfRating10[q] > ProfRating10[lastResp.winner]

\* The score of p in the call probed, and p's place in iteration order.
ProbeScore(p) == CalculateScore(p, probe.jit[p])
Place(p) == CHOOSE i \in 1..Len(RosterOrder) : RosterOrder[i] = p

\* C25: with the random factors fixed, find_best_professional returns an
\* eligible candidate of maximal score, and among the candidates of exactly
\* that score the one that comes first in iteration order.
C25_BestIsFirstMaximum ==
    probe.best # NoProf =>
        /\ probe.best \in Eligible
        /\ \A q \in Eligible :
            /\ ProbeScore(probe.best) >= ProbeScore(q)
            /\ ProbeScore(q) = ProbeScore(probe.best) => Place(probe.best) <= Place(q)

\* Two candidates tied on the maximum and the first one was returned.
C25_Witness ==
    /\ probe.best = 1
    /\ Eligible = {1, 2}
    /\ ProbeScore(1) = ProbeScore(2)

\* C26: every successful match, by the matcher or by the admin action,
\* creates exactly one CallOffer: for the winner, for this request, pending,
\* with expires_at = the match time plus the 5-minute offer window and no
\* response recorded.
C26_MatchCreatesOneOffer ==
    [][SelectionStep =>
        calls' = Append(calls,
                        [professional |-> lastResp'.winner, status |-> "pending",
                         expires_at |-> now + 5, responded_at |-> NULL,
                         accepted_at |-> NULL, rejected_at |-> NULL])]_vars

\* C27: a stored ConsultationRequest has a duration between 15 and 240
\* minutes, whether it was created through the serializer or as a quick
\* consultation.
C27_StoredDurationInRange ==
    db.status # "none" =>
        /\ db.duration_minutes >= MinDurationAllowed
        /\ db.duration_minutes <= MaxDurationAllowed

\* C28: a request whose status is matched, accepted, in_progress or completed
\* has a professional, after any sequence of match, accept, complete, payment
\* confirmation and admin actions.
C28_AssignedStatusHasProfessional ==
    db.status \in {"matched", "accepted", "in_progress", "completed"} =>
        db.professional # NoProf

\* C29: a payment-success event (confirm_payment, the payment_intent.succeeded
\* webhook, the M-Pesa callback) leaves the status of a completed, cancelled,
\* rejected or expired consultation as it is.
C29_PaymentKeepsTerminalStatus ==
    [][((RequestStep \/ FinishStep)
            /\ lastResp'.op \in {"payment", "confirm_payment", "payment_webhook"}
            /\ db.status \in {"completed", "cancelled", "rejected", "expired"}) =>
        db'.status = db.status]_vars

\* C30: the response to a CallOffer is final across accept, reject and
\* update_status: an offer that was accepted is never rejected or expired
\* afterwards, one that was rejected is never accepted afterwards, and no
\* offer has both accepted_at and rejected_at.
C30_OfferResponseIsFinal ==
    \A i \in 1..Len(calls) :
        /\ calls[i].accepted_at # NULL =>
              calls[i].status \notin {"rejected", "expired"}
        /\ calls[i].rejected_at # NULL => calls[i].status # "accepted"
        /\ ~(calls[i].accepted_at # NULL /\ calls[i].rejected_at # NULL)

====
